---- MODULE Spec2Model ----
(***************************************************************************)
(* The in-memory store of src/src/openapi/orderapi.py: the four tables of  *)
(* DB, the id COUNTERS, and one action per route handler.                  *)
(*                                                                         *)
(* Money is counted in thousandths of a currency unit (999.99 is 999990),  *)
(* so that a price with more than two decimals is representable and        *)
(* round(x, 2) is a real operation.  An Optional[...] body field is the    *)
(* empty sequence for None and <<v>> for the value v.  The fields no       *)
(* handler reads when it decides or mutates (name, role, category,         *)
(* content, tags, created_at) are left out of the records.                 *)
(*                                                                         *)
(* The relocation register of src/src/ide-integration/mcp_server.py is a   *)
(* second program, with its own variables: the requests of either program  *)
(* leave the variables of the other alone.                                 *)
(***************************************************************************)
EXTENDS Integers, FiniteSets, Sequences, TLC

VARIABLES
    DB,         \* the four tables: users, products, orders, notes
    COUNTERS,   \* the last id handed out per table
    response,   \* the reply to the latest request
    issued,     \* history: per table, the ids next_id has returned so far
    issued_since_reset, \* history: the same, emptied by every reset
    inflight,   \* per caller, the place_order call that is past its stock check
    relocations_db,     \* the relocation register: customer id -> entry
    customer_counter,   \* the number of the last customer id handed out
    timers,     \* the auto-confirm Timers started and yet to fire
    returned,   \* history: the customer ids register_relocation has
                \* returned, in order
    happened    \* history: the latest step of the relocation register

vars == <<DB, COUNTERS, response, issued, issued_since_reset, inflight,
          relocations_db, customer_counter, timers, returned, happened>>

\* the variables of the ledger
ledger == <<DB, COUNTERS, response, issued, issued_since_reset, inflight>>

\* the variables of the relocation register
relocation == <<relocations_db, customer_counter, timers, returned, happened>>

\* the history variables
history == <<issued, issued_since_reset>>

Tables == {"users", "products", "orders", "notes"}

\* the callers that can have a place_order call under way at the same time
Callers == {1, 2}

----------------------------------------------------------------------------
(* Bounds of the model *)

\* create requests are explored while fewer than this many ids have been
\* handed out, over the four tables together, since the seed was installed
MaxCreated == 1
\* restock is explored while the resulting stock is at most this
MaxStock == 1
\* the same as MaxCreated, in SpecIds and SpecUsers
MaxIssued == 2
\* register_relocation is explored while fewer calls than this have returned
MaxRegistered == 2

----------------------------------------------------------------------------
(* Seed data *)

SeedUsers ==
    (1 :> [email |-> "alice@example.com"]) @@
    (2 :> [email |-> "bob@example.com"]) @@
    (3 :> [email |-> "charlie@example.com"])

SeedProducts ==
    (1 :> [price |-> 999990, stock |-> 15]) @@
    (2 :> [price |-> 79990,  stock |-> 42]) @@
    (3 :> [price |-> 249990, stock |-> 8]) @@
    (4 :> [price |-> 4990,   stock |-> 200])

SeedOrders ==
    (1 :> [user_id |-> 1, product_id |-> 1, quantity |-> 1,
           total |-> 999990, status |-> "shipped"]) @@
    (2 :> [user_id |-> 2, product_id |-> 2, quantity |-> 2,
           total |-> 159980, status |-> "pending"]) @@
    (3 :> [user_id |-> 1, product_id |-> 3, quantity |-> 1,
           total |-> 249990, status |-> "paid"])

SeedNotes == [x \in {} |-> [title |-> "", updated |-> FALSE]]

SeedDB ==
    [users |-> SeedUsers, products |-> SeedProducts,
     orders |-> SeedOrders, notes |-> SeedNotes]

SeedCounters == [users |-> 3, products |-> 4, orders |-> 3, notes |-> 0]

----------------------------------------------------------------------------
(* Helpers *)

\* d[k] = v on a dict
Put(d, k, v) == [x \in (DOMAIN d) \cup {k} |-> IF x = k THEN v ELSE d[x]]

\* del d[k]
Del(d, k) == [x \in (DOMAIN d) \ {k} |-> d[x]]

\* the reply of a handler: the status code and what its body or detail names
\* (id: the id it names; ids: the cancelled orders; n: a count or a stock;
\* q: the quantity asked for; missing: the kind of entity a 404 did not find;
\* body: what a read returns)
Reply(op, code, id, ids, n, q) ==
    [op |-> op, code |-> code, id |-> id, ids |-> ids, n |-> n, q |-> q,
     missing |-> "", body |-> <<>>]

\* HTTPException(status_code=404, detail=f"{kind} {id} not found")
NotFound(op, kind, id, q) ==
    [Reply(op, 404, id, {}, 0, q) EXCEPT !.missing = kind]

\* faulty variant of next_id: the id returned is the counter before the
\* increment
next_id_bug(table) == COUNTERS[table]

\* next_id(table): the id returned
next_id(table) == COUNTERS[table] + 1

\* faulty variant of Bump: the counter is not advanced
Bump_bug(table) == COUNTERS

\* next_id(table): the new COUNTERS
Bump(table) == [COUNTERS EXCEPT ![table] = @ + 1]

\* faulty variant of round2: truncation to the hundredth below
round2_bug(x) == x - (x % 10)

\* round(x, 2) on thousandths: the nearest multiple of 10, a tie going to
\* the even hundredth (no price * quantity explored below is a tie, where
\* the binary value of the float would decide)
round2(x) ==
    LET r == x % 10
        lo == x - r
    IN  IF r < 5 THEN lo
        ELSE IF r > 5 THEN lo + 10
        ELSE IF (lo \div 10) % 2 = 0 THEN lo ELSE lo + 10

\* the reply of a read: 200 and the body returned
Returned(op, id, body) == [Reply(op, 200, id, {}, 0, 0) EXCEPT !.body = body]

\* sum(f[i] for i in ids)
RECURSIVE Sum(_, _)
Sum(f, ids) ==
    IF ids = {} THEN 0
    ELSE LET i == CHOOSE x \in ids : TRUE
         IN  f[i] + Sum(f, ids \ {i})

----------------------------------------------------------------------------
(* Request validation (pydantic field validators) *)

\* faulty variant of qty_positive: zero passes
qty_positive_bug(v) == v >= 0

price_positive(v) == v > 0

qty_positive(v) == v > 0

status_must_be_valid(v) == v \in {"paid", "shipped", "cancelled"}


----------------------------------------------------------------------------
(* Users *)

\* faulty variant of create_user: the emails in the store are not looked at
create_user_bug(body) ==
    LET uid == next_id("users")
    IN  /\ COUNTERS' = Bump("users")
        /\ DB' = [DB EXCEPT !.users = Put(@, uid, [email |-> body.email])]
        /\ response' = Reply("create_user", 201, uid, {}, 0, 0)

\* POST /users
create_user(body) ==
    IF \E u \in DOMAIN DB.users : DB.users[u].email = body.email
    THEN /\ response' = Reply("create_user", 409, 0, {}, 0, 0)
         /\ UNCHANGED <<DB, COUNTERS>>
    ELSE LET uid == next_id("users")
         IN  /\ COUNTERS' = Bump("users")
             /\ DB' = [DB EXCEPT !.users = Put(@, uid, [email |-> body.email])]
             /\ response' = Reply("create_user", 201, uid, {}, 0, 0)

\* PATCH /users/{user_id}
update_user(user_id, body) ==
    IF user_id \notin DOMAIN DB.users
    THEN /\ response' = NotFound("update_user", "User", user_id, 0)
         /\ UNCHANGED <<DB, COUNTERS>>
    ELSE /\ DB' = [DB EXCEPT !.users[user_id].email =
                        IF body.email = <<>> THEN @ ELSE body.email[1]]
         /\ response' = Reply("update_user", 200, user_id, {}, 0, 0)
         /\ UNCHANGED COUNTERS

\* faulty variant of CascadeOrders: the status of the order is not looked at
CascadeOrders_bug(user_id) ==
    {o \in DOMAIN DB.orders : DB.orders[o].user_id = user_id}

\* the orders the cascade of delete_user cancels
CascadeOrders(user_id) ==
    {o \in DOMAIN DB.orders :
        DB.orders[o].user_id = user_id /\ DB.orders[o].status = "pending"}

\* DELETE /users/{user_id}
delete_user(user_id) ==
    IF user_id \notin DOMAIN DB.users
    THEN /\ response' = NotFound("delete_user", "User", user_id, 0)
         /\ UNCHANGED <<DB, COUNTERS>>
    ELSE LET cancelled == CascadeOrders(user_id)
         IN  /\ DB' = [DB EXCEPT
                    !.users = Del(@, user_id),
                    !.orders = [o \in DOMAIN @ |->
                        IF o \in cancelled
                        THEN [@[o] EXCEPT !.status = "cancelled"]
                        ELSE @[o]]]
             /\ response' = Reply("delete_user", 200, user_id, cancelled, 0, 0)
             /\ UNCHANGED COUNTERS

----------------------------------------------------------------------------
(* Products *)

\* POST /products
create_product(body) ==
    IF ~price_positive(body.price)
    THEN /\ response' = Reply("create_product", 422, 0, {}, 0, 0)
         /\ UNCHANGED <<DB, COUNTERS>>
    ELSE LET pid == next_id("products")
         IN  /\ COUNTERS' = Bump("products")
             /\ DB' = [DB EXCEPT !.products =
                        Put(@, pid, [price |-> body.price, stock |-> body.stock])]
             /\ response' = Reply("create_product", 201, pid, {}, 0, 0)

\* product.update(updates): the fields of the body that are not None
ProductUpdated(product, body) ==
    [price |-> IF body.price = <<>> THEN product.price ELSE body.price[1],
     stock |-> IF body.stock = <<>> THEN product.stock ELSE body.stock[1]]

\* faulty variant of update_product: the totals of the product's orders are
\* recomputed from the new price
update_product_bug(product_id, body) ==
    IF product_id \notin DOMAIN DB.products
    THEN /\ response' = NotFound("update_product", "Product", product_id, 0)
         /\ UNCHANGED <<DB, COUNTERS>>
    ELSE LET updated == ProductUpdated(DB.products[product_id], body)
         IN  /\ DB' = [DB EXCEPT
                    !.products[product_id] = updated,
                    !.orders = [o \in DOMAIN DB.orders |->
                        IF DB.orders[o].product_id = product_id
                        THEN [DB.orders[o] EXCEPT
                                !.total = updated.price * DB.orders[o].quantity]
                        ELSE DB.orders[o]]]
             /\ response' = Reply("update_product", 200, product_id, {}, 0, 0)
             /\ UNCHANGED COUNTERS

\* PATCH /products/{product_id}
update_product(product_id, body) ==
    IF product_id \notin DOMAIN DB.products
    THEN /\ response' = NotFound("update_product", "Product", product_id, 0)
         /\ UNCHANGED <<DB, COUNTERS>>
    ELSE /\ DB' = [DB EXCEPT !.products[product_id] = ProductUpdated(@, body)]
         /\ response' = Reply("update_product", 200, product_id, {}, 0, 0)
         /\ UNCHANGED COUNTERS

\* faulty variant of PendingFor: the status of the order is not looked at
PendingFor_bug(product_id) ==
    {o \in DOMAIN DB.orders : DB.orders[o].product_id = product_id}

\* the pending orders that block delete_product
PendingFor(product_id) ==
    {o \in DOMAIN DB.orders :
        DB.orders[o].product_id = product_id /\ DB.orders[o].status = "pending"}

\* faulty variant of delete_product: the orders of the product go with it
delete_product_bug(product_id) ==
    IF product_id \notin DOMAIN DB.products
    THEN /\ response' = NotFound("delete_product", "Product", product_id, 0)
         /\ UNCHANGED <<DB, COUNTERS>>
    ELSE IF PendingFor(product_id) # {}
    THEN /\ response' = Reply("delete_product", 409, product_id, {},
                              Cardinality(PendingFor(product_id)), 0)
         /\ UNCHANGED <<DB, COUNTERS>>
    ELSE /\ DB' = [DB EXCEPT
                !.products = Del(@, product_id),
                !.orders = [o \in {x \in DOMAIN DB.orders :
                                    DB.orders[x].product_id # product_id}
                            |-> DB.orders[o]]]
         /\ response' = Reply("delete_product", 200, product_id, {}, 0, 0)
         /\ UNCHANGED COUNTERS

\* DELETE /products/{product_id}
delete_product(product_id) ==
    IF product_id \notin DOMAIN DB.products
    THEN /\ response' = NotFound("delete_product", "Product", product_id, 0)
         /\ UNCHANGED <<DB, COUNTERS>>
    ELSE IF PendingFor(product_id) # {}
    THEN /\ response' = Reply("delete_product", 409, product_id, {},
                              Cardinality(PendingFor(product_id)), 0)
         /\ UNCHANGED <<DB, COUNTERS>>
    ELSE /\ DB' = [DB EXCEPT !.products = Del(@, product_id)]
         /\ response' = Reply("delete_product", 200, product_id, {}, 0, 0)
         /\ UNCHANGED COUNTERS

\* faulty variant of restock_product: the quantity replaces the stock
restock_product_bug(product_id, body) ==
    IF ~qty_positive(body.quantity)
    THEN /\ response' = Reply("restock_product", 422, 0, {}, 0, body.quantity)
         /\ UNCHANGED <<DB, COUNTERS>>
    ELSE IF product_id \notin DOMAIN DB.products
    THEN /\ response' = NotFound("restock_product", "Product", product_id, body.quantity)
         /\ UNCHANGED <<DB, COUNTERS>>
    ELSE /\ DB' = [DB EXCEPT !.products[product_id].stock = body.quantity]
         /\ response' = Reply("restock_product", 200, product_id, {},
                              body.quantity, body.quantity)
         /\ UNCHANGED COUNTERS

\* POST /products/{product_id}/restock
restock_product(product_id, body) ==
    IF ~qty_positive(body.quantity)
    THEN /\ response' = Reply("restock_product", 422, 0, {}, 0, body.quantity)
         /\ UNCHANGED <<DB, COUNTERS>>
    ELSE IF product_id \notin DOMAIN DB.products
    THEN /\ response' = NotFound("restock_product", "Product", product_id, body.quantity)
         /\ UNCHANGED <<DB, COUNTERS>>
    ELSE /\ DB' = [DB EXCEPT !.products[product_id].stock = @ + body.quantity]
         /\ response' = Reply("restock_product", 200, product_id, {},
                              DB.products[product_id].stock + body.quantity,
                              body.quantity)
         /\ UNCHANGED COUNTERS

----------------------------------------------------------------------------
(* Orders *)

\* faulty variant of InsufficientStock: only an empty stock is refused
InsufficientStock_bug(product, quantity) == product.stock <= 0

\* faulty variant of InsufficientStock: no order is refused for the stock
InsufficientStock_off(product, quantity) == FALSE

\* the stock check of create_order
InsufficientStock(product, quantity) == product.stock < quantity

\* faulty variant of create_order: the product is looked up before the user
create_order_bug(body) ==
    IF ~qty_positive(body.quantity)
    THEN /\ response' = Reply("create_order", 422, 0, {}, 0, body.quantity)
         /\ UNCHANGED <<DB, COUNTERS>>
    ELSE IF body.product_id \notin DOMAIN DB.products
    THEN /\ response' = NotFound("create_order", "Product", body.product_id, body.quantity)
         /\ UNCHANGED <<DB, COUNTERS>>
    ELSE IF body.user_id \notin DOMAIN DB.users
    THEN /\ response' = NotFound("create_order", "User", body.user_id, body.quantity)
         /\ UNCHANGED <<DB, COUNTERS>>
    ELSE IF InsufficientStock(DB.products[body.product_id], body.quantity)
    THEN /\ response' = Reply("create_order", 400, 0, {},
                              DB.products[body.product_id].stock, body.quantity)
         /\ UNCHANGED <<DB, COUNTERS>>
    ELSE LET product == DB.products[body.product_id]
             oid == next_id("orders")
             order == [user_id |-> body.user_id,
                       product_id |-> body.product_id,
                       quantity |-> body.quantity,
                       total |-> round2(product.price * body.quantity),
                       status |-> "pending"]
         IN  /\ COUNTERS' = Bump("orders")
             /\ DB' = [DB EXCEPT
                    !.products[body.product_id].stock = @ - body.quantity,
                    !.orders = Put(@, oid, order)]
             /\ response' = Reply("create_order", 201, oid, {},
                                  product.stock - body.quantity, body.quantity)

\* POST /orders
create_order(body) ==
    IF ~qty_positive(body.quantity)
    THEN /\ response' = Reply("create_order", 422, 0, {}, 0, body.quantity)
         /\ UNCHANGED <<DB, COUNTERS>>
    ELSE IF body.user_id \notin DOMAIN DB.users
    THEN /\ response' = NotFound("create_order", "User", body.user_id, body.quantity)
         /\ UNCHANGED <<DB, COUNTERS>>
    ELSE IF body.product_id \notin DOMAIN DB.products
    THEN /\ response' = NotFound("create_order", "Product", body.product_id, body.quantity)
         /\ UNCHANGED <<DB, COUNTERS>>
    ELSE IF InsufficientStock(DB.products[body.product_id], body.quantity)
    THEN /\ response' = Reply("create_order", 400, 0, {},
                              DB.products[body.product_id].stock, body.quantity)
         /\ UNCHANGED <<DB, COUNTERS>>
    ELSE LET product == DB.products[body.product_id]
             oid == next_id("orders")
             order == [user_id |-> body.user_id,
                       product_id |-> body.product_id,
                       quantity |-> body.quantity,
                       total |-> round2(product.price * body.quantity),
                       status |-> "pending"]
         IN  /\ COUNTERS' = Bump("orders")
             /\ DB' = [DB EXCEPT
                    !.products[body.product_id].stock = @ - body.quantity,
                    !.orders = Put(@, oid, order)]
             /\ response' = Reply("create_order", 201, oid, {},
                                  product.stock - body.quantity, body.quantity)

\* the lookups and the stock check of create_order let the body through
Passes(body) ==
    /\ qty_positive(body.quantity)
    /\ body.user_id \in DOMAIN DB.users
    /\ body.product_id \in DOMAIN DB.products
    /\ ~InsufficientStock(DB.products[body.product_id], body.quantity)

\* create_order served to caller c up to its stock check: a refusal is
\* the whole call; otherwise the call stands before its decrement, and
\* seen keeps the stock that the check read
create_order_check(c, body) ==
    /\ inflight[c] = <<>>
    /\ IF Passes(body)
       THEN /\ inflight' = [inflight EXCEPT ![c] =
                    <<[body |-> body,
                       seen |-> DB.products[body.product_id].stock]>>]
            /\ UNCHANGED <<DB, COUNTERS, response>>
       ELSE /\ create_order(body)
            /\ UNCHANGED inflight

\* the rest of the call of caller c: the decrement of the stock as it is
\* now, the new order and the reply
create_order_commit(c) ==
    /\ inflight[c] # <<>>
    /\ LET body == inflight[c][1].body
           product == DB.products[body.product_id]
           oid == next_id("orders")
           order == [user_id |-> body.user_id,
                     product_id |-> body.product_id,
                     quantity |-> body.quantity,
                     total |-> round2(product.price * body.quantity),
                     status |-> "pending"]
       IN  /\ COUNTERS' = Bump("orders")
           /\ DB' = [DB EXCEPT
                  !.products[body.product_id].stock = @ - body.quantity,
                  !.orders = Put(@, oid, order)]
           /\ response' = Reply("create_order", 201, oid, {},
                                product.stock - body.quantity, body.quantity)
    /\ inflight' = [inflight EXCEPT ![c] = <<>>]

\* faulty variant of transitions: a shipped order can still be cancelled
transitions_bug ==
    [pending   |-> {"paid", "cancelled"},
     paid      |-> {"shipped", "cancelled"},
     shipped   |-> {"cancelled"},
     cancelled |-> {}]

\* the table of legal transitions
transitions ==
    [pending   |-> {"paid", "cancelled"},
     paid      |-> {"shipped", "cancelled"},
     shipped   |-> {},
     cancelled |-> {}]

\* faulty variant of Restored: one unit is put back, whatever the quantity
Restored_bug(order, status, current) ==
    IF /\ status = "cancelled"
       /\ current \in {"pending", "paid"}
       /\ order.product_id \in DOMAIN DB.products
    THEN [DB.products EXCEPT ![order.product_id].stock = @ + 1]
    ELSE DB.products

\* faulty variant of Restored: a product that is gone comes back, holding
\* the quantity of the order
Restored_resurrecting(order, status, current) ==
    IF status = "cancelled" /\ current \in {"pending", "paid"}
    THEN IF order.product_id \in DOMAIN DB.products
         THEN [DB.products EXCEPT ![order.product_id].stock = @ + order.quantity]
         ELSE Put(DB.products, order.product_id,
                  [price |-> 0, stock |-> order.quantity])
    ELSE DB.products

\* the products table after the stock restore of a cancellation
Restored(order, status, current) ==
    IF /\ status = "cancelled"
       /\ current \in {"pending", "paid"}
       /\ order.product_id \in DOMAIN DB.products
    THEN [DB.products EXCEPT ![order.product_id].stock = @ + order.quantity]
    ELSE DB.products

\* faulty variant of update_order_status: the status is written before the
\* transition is looked up
update_order_status_bug(order_id, body) ==
    IF ~status_must_be_valid(body.status)
    THEN /\ response' = Reply("update_order_status", 422, 0, {}, 0, 0)
         /\ UNCHANGED <<DB, COUNTERS>>
    ELSE IF order_id \notin DOMAIN DB.orders
    THEN /\ response' = NotFound("update_order_status", "Order", order_id, 0)
         /\ UNCHANGED <<DB, COUNTERS>>
    ELSE LET order == DB.orders[order_id]
             current == order.status
         IN  IF body.status \notin transitions[current]
             THEN /\ response' = Reply("update_order_status", 400, order_id,
                                       {}, 0, 0)
                  /\ DB' = [DB EXCEPT !.orders[order_id].status = body.status]
                  /\ UNCHANGED COUNTERS
             ELSE /\ DB' = [DB EXCEPT
                        !.products = Restored(order, body.status, current),
                        !.orders[order_id].status = body.status]
                  /\ response' = Reply("update_order_status", 200, order_id,
                                       {}, 0, 0)
                  /\ UNCHANGED COUNTERS

\* PATCH /orders/{order_id}/status
update_order_status(order_id, body) ==
    IF ~status_must_be_valid(body.status)
    THEN /\ response' = Reply("update_order_status", 422, 0, {}, 0, 0)
         /\ UNCHANGED <<DB, COUNTERS>>
    ELSE IF order_id \notin DOMAIN DB.orders
    THEN /\ response' = NotFound("update_order_status", "Order", order_id, 0)
         /\ UNCHANGED <<DB, COUNTERS>>
    ELSE LET order == DB.orders[order_id]
             current == order.status
         IN  IF body.status \notin transitions[current]
             THEN /\ response' = Reply("update_order_status", 400, order_id,
                                       {}, 0, 0)
                  /\ UNCHANGED <<DB, COUNTERS>>
             ELSE /\ DB' = [DB EXCEPT
                        !.products = Restored(order, body.status, current),
                        !.orders[order_id].status = body.status]
                  /\ response' = Reply("update_order_status", 200, order_id,
                                       {}, 0, 0)
                  /\ UNCHANGED COUNTERS

----------------------------------------------------------------------------
(* Notes *)

\* POST /notes
create_note(body) ==
    LET nid == next_id("notes")
    IN  /\ COUNTERS' = Bump("notes")
        /\ DB' = [DB EXCEPT !.notes =
                    Put(@, nid, [title |-> body.title, updated |-> FALSE])]
        /\ response' = Reply("create_note", 201, nid, {}, 0, 0)

\* PATCH /notes/{note_id}
update_note(note_id, body) ==
    IF note_id \notin DOMAIN DB.notes
    THEN /\ response' = NotFound("update_note", "Note", note_id, 0)
         /\ UNCHANGED <<DB, COUNTERS>>
    ELSE /\ DB' = [DB EXCEPT !.notes[note_id] =
                    [title |-> IF body.title = <<>> THEN @.title ELSE body.title[1],
                     updated |-> TRUE]]
         /\ response' = Reply("update_note", 200, note_id, {}, 0, 0)
         /\ UNCHANGED COUNTERS

\* DELETE /notes/{note_id}
delete_note(note_id) ==
    IF note_id \notin DOMAIN DB.notes
    THEN /\ response' = NotFound("delete_note", "Note", note_id, 0)
         /\ UNCHANGED <<DB, COUNTERS>>
    ELSE /\ DB' = [DB EXCEPT !.notes = Del(@, note_id)]
         /\ response' = Reply("delete_note", 200, note_id, {}, 0, 0)
         /\ UNCHANGED COUNTERS

----------------------------------------------------------------------------
(* Reads *)

\* GET /users/{user_id}
get_user(user_id) ==
    /\ response' = IF user_id \notin DOMAIN DB.users
                   THEN NotFound("get_user", "User", user_id, 0)
                   ELSE Returned("get_user", user_id, DB.users[user_id])
    /\ UNCHANGED <<DB, COUNTERS>>

\* GET /products/{product_id}
get_product(product_id) ==
    /\ response' = IF product_id \notin DOMAIN DB.products
                   THEN NotFound("get_product", "Product", product_id, 0)
                   ELSE Returned("get_product", product_id, DB.products[product_id])
    /\ UNCHANGED <<DB, COUNTERS>>

\* DB[table].get(id, {}): <<>> stands for the empty dict
GetOrEmpty(table, id) ==
    IF id \in DOMAIN DB[table] THEN DB[table][id] ELSE <<>>

\* GET /orders/{order_id}
get_order(order_id) ==
    /\ response' =
            IF order_id \notin DOMAIN DB.orders
            THEN NotFound("get_order", "Order", order_id, 0)
            ELSE LET order == DB.orders[order_id]
                 IN  Returned("get_order", order_id,
                        [order |-> order,
                         user |-> GetOrEmpty("users", order.user_id),
                         product |-> GetOrEmpty("products", order.product_id)])
    /\ UNCHANGED <<DB, COUNTERS>>

\* GET /notes/{note_id}
get_note(note_id) ==
    /\ response' = IF note_id \notin DOMAIN DB.notes
                   THEN NotFound("get_note", "Note", note_id, 0)
                   ELSE Returned("get_note", note_id, DB.notes[note_id])
    /\ UNCHANGED <<DB, COUNTERS>>

\* faulty variant of Earning: every order that is not cancelled counts
Earning_bug(orders) ==
    {o \in DOMAIN orders : orders[o].status # "cancelled"}

\* the orders that count as revenue
Earning(orders) ==
    {o \in DOMAIN orders : orders[o].status \in {"paid", "shipped"}}

\* GET /analytics/users/{user_id}/orders
user_orders(user_id) ==
    /\ response' =
            IF user_id \notin DOMAIN DB.users
            THEN NotFound("user_orders", "User", user_id, 0)
            ELSE LET orders == {o \in DOMAIN DB.orders :
                                    DB.orders[o].user_id = user_id}
                     total_spent ==
                        Sum([o \in orders |-> DB.orders[o].total],
                            orders \cap Earning(DB.orders))
                 IN  Returned("user_orders", user_id,
                        [order_count |-> Cardinality(orders),
                         total_spent |-> round2(total_spent),
                         orders |-> orders])
    /\ UNCHANGED <<DB, COUNTERS>>

\* by_status[o["status"]] = by_status.get(o["status"], 0) + 1, over the
\* orders: the statuses that occur, each with the number of its orders
by_status(orders) ==
    [s \in {orders[o].status : o \in DOMAIN orders} |->
        Cardinality({o \in DOMAIN orders : orders[o].status = s})]

\* the products listed as low on stock
low_stock(products) == {p \in DOMAIN products : products[p].stock < 10}

\* the body of the summary of a store
SummaryOf(db) ==
    [users |-> Cardinality(DOMAIN db.users),
     products |-> Cardinality(DOMAIN db.products),
     low_stock |-> low_stock(db.products),
     orders |-> Cardinality(DOMAIN db.orders),
     by_status |-> by_status(db.orders),
     total_revenue |->
        round2(Sum([o \in DOMAIN db.orders |-> db.orders[o].total],
                   Earning(db.orders))),
     notes |-> Cardinality(DOMAIN db.notes)]

\* GET /analytics/summary
summary ==
    /\ response' = Returned("summary", 0, SummaryOf(DB))
    /\ UNCHANGED <<DB, COUNTERS>>

----------------------------------------------------------------------------
(* Reset *)

\* faulty variant of reset: the counters are left where they are
reset_bug ==
    /\ DB' = SeedDB
    /\ response' = Reply("reset", 200, 0, {}, 0, 0)
    /\ UNCHANGED COUNTERS

\* POST /reset
reset ==
    /\ DB' = SeedDB
    /\ COUNTERS' = SeedCounters
    /\ response' = Reply("reset", 200, 0, {}, 0, 0)

----------------------------------------------------------------------------
(* The relocation register (src/src/ide-integration/mcp_server.py); its    *)
(* two reads, get_relocation_status and list_all_relocations, are left out *)

\* the decimal digits of n, the first one first
RECURSIVE Digits(_)
Digits(n) == IF n < 10 THEN <<n>> ELSE Append(Digits(n \div 10), n % 10)

\* format(n, "05d"): the digits of n, with zeros in front up to a width of 5
ZeroPadded5(n) ==
    LET d == Digits(n)
    IN  IF Len(d) >= 5 THEN d ELSE [i \in 1..(5 - Len(d)) |-> 0] \o d

\* f"RELOC-{customer_counter:05d}"
customer_id(n) == <<"RELOC-">> \o ZeroPadded5(n)

\* the statuses change_relocation_status takes
RelocationStatuses ==
    {"pending", "confirmed", "in_transit", "completed", "cancelled"}

\* the latest step of the register: the operation, the customer id it is
\* about, the status it found there, and whether it found the id
Event(op, cid, was, ok) ==
    [op |-> op, customer_id |-> cid, was |-> was, ok |-> ok]

\* datetime.now() at a registration: registrations are told apart by their
\* rank among the calls that have returned
now == Len(returned) + 1

\* faulty variant of NextCustomer: the counter is not advanced
NextCustomer_stuck == IF customer_counter = 0 THEN 1 ELSE customer_counter

\* customer_counter += 1
NextCustomer == customer_counter + 1

\* faulty variant of auto_confirm_status: the Timer fires and writes nothing
auto_confirm_status_lost(t) ==
    /\ t \in timers
    /\ timers' = timers \ {t}
    /\ happened' =
            IF t.customer_id \in DOMAIN relocations_db
            THEN Event("auto_confirm_status", t.customer_id,
                       relocations_db[t.customer_id].status, TRUE)
            ELSE Event("auto_confirm_status", t.customer_id, "", FALSE)
    /\ UNCHANGED <<relocations_db, customer_counter, returned>>

\* faulty variant of auto_confirm_status: a relocation that has left
\* pending is not confirmed
auto_confirm_status_if_pending(t) ==
    /\ t \in timers
    /\ timers' = timers \ {t}
    /\ IF t.customer_id \in DOMAIN relocations_db
       THEN /\ relocations_db' =
                    [relocations_db EXCEPT ![t.customer_id].status =
                        IF @ = "pending" THEN "confirmed" ELSE @]
            /\ happened' = Event("auto_confirm_status", t.customer_id,
                                 relocations_db[t.customer_id].status, TRUE)
       ELSE /\ happened' = Event("auto_confirm_status", t.customer_id, "", FALSE)
            /\ UNCHANGED relocations_db
    /\ UNCHANGED <<customer_counter, returned>>

\* the Timer t fires: auto_confirm_status(t.customer_id)
auto_confirm_status(t) ==
    /\ t \in timers
    /\ timers' = timers \ {t}
    /\ IF t.customer_id \in DOMAIN relocations_db
       THEN /\ relocations_db' =
                    [relocations_db EXCEPT ![t.customer_id].status = "confirmed"]
            /\ happened' = Event("auto_confirm_status", t.customer_id,
                                 relocations_db[t.customer_id].status, TRUE)
       ELSE /\ happened' = Event("auto_confirm_status", t.customer_id, "", FALSE)
            /\ UNCHANGED relocations_db
    /\ UNCHANGED <<customer_counter, returned>>

\* register_relocation(request)
register_relocation ==
    LET cid == customer_id(NextCustomer)
    IN  /\ customer_counter' = NextCustomer
        /\ relocations_db' =
                Put(relocations_db, cid,
                    [status |-> "pending", registered_at |-> now])
        /\ timers' = timers \cup {[customer_id |-> cid, started |-> now]}
        /\ returned' = Append(returned, cid)
        /\ happened' = Event("register_relocation", cid, "", TRUE)

\* remove_relocation(customer_id)
remove_relocation(cid) ==
    IF cid \notin DOMAIN relocations_db
    THEN /\ happened' = Event("remove_relocation", cid, "", FALSE)
         /\ UNCHANGED <<relocations_db, customer_counter, timers, returned>>
    ELSE /\ relocations_db' = Del(relocations_db, cid)
         /\ happened' = Event("remove_relocation", cid,
                              relocations_db[cid].status, TRUE)
         /\ UNCHANGED <<customer_counter, timers, returned>>

\* change_relocation_status(customer_id, new_status)
change_relocation_status(cid, new_status) ==
    IF cid \notin DOMAIN relocations_db
    THEN /\ happened' = Event("change_relocation_status", cid, "", FALSE)
         /\ UNCHANGED <<relocations_db, customer_counter, timers, returned>>
    ELSE /\ relocations_db' = [relocations_db EXCEPT ![cid].status = new_status]
         /\ happened' = Event("change_relocation_status", cid,
                              relocations_db[cid].status, TRUE)
         /\ UNCHANGED <<customer_counter, timers, returned>>

----------------------------------------------------------------------------
Init ==
    /\ DB = SeedDB
    /\ COUNTERS = SeedCounters
    /\ response = Reply("start", 0, 0, {}, 0, 0)
    /\ issued = [t \in Tables |-> {}]
    /\ issued_since_reset = [t \in Tables |-> {}]
    /\ inflight = [c \in Callers |-> <<>>]
    /\ relocations_db = <<>>
    /\ customer_counter = 0
    /\ timers = {}
    /\ returned = <<>>
    /\ happened = Event("start", <<>>, "", TRUE)

----------------------------------------------------------------------------
(* The requests explored *)

\* the ids handed out since the seed was installed
Created ==
    (COUNTERS.users - SeedCounters.users) + (COUNTERS.products - SeedCounters.products)
    + (COUNTERS.orders - SeedCounters.orders) + (COUNTERS.notes - SeedCounters.notes)

\* the ids of a table above the seed's that requests name: those handed out
\* since the seed was installed
NewIds(table) == (SeedCounters[table] + 1) .. COUNTERS[table]

\* user ids that requests name: the seed user with a pending order, and new ones
UserArgs == {2} \cup NewIds("users")

\* product ids that requests name: the seed product with a pending order, and
\* new ones
ProductArgs == {2} \cup NewIds("products")

\* order ids that requests name: the seed order that is pending, new ones,
\* and the next id, which no order has
OrderArgs == {2} \cup NewIds("orders") \cup {COUNTERS.orders + 1}

NoteArgs == NewIds("notes")

UserCreateBodies ==
    {[email |-> e] : e \in {"alice@example.com", "diana@example.com"}}

\* in Spec a user update leaves the email alone; SpecUsers explores the rest
UserUpdateBodies == {[email |-> <<>>]}

UserEmailBodies ==
    {[email |-> e] : e \in {<<>>, <<"alice@example.com">>, <<"eve@example.com">>}}

ProductCreateBodies ==
    {[price |-> 4, stock |-> 0], [price |-> 0, stock |-> 0]}

ProductUpdateBodies ==
    {[price |-> <<>>,  stock |-> <<>>],
     [price |-> <<4>>, stock |-> <<>>],
     [price |-> <<>>,  stock |-> <<-1>>]}

RestockBodies == {[quantity |-> q] : q \in {0, 1}}

OrderCreateBodies ==
    {[user_id |-> u, product_id |-> p, quantity |-> 2] :
        u \in UserArgs, p \in ProductArgs}
    \cup {[user_id |-> 2, product_id |-> 2, quantity |-> q] : q \in {0, 50}}

OrderStatusBodies ==
    {[status |-> s] : s \in {"pending", "paid", "shipped", "cancelled"}}

NoteCreateBodies == {[title |-> "Q4 Goals"]}

NoteUpdateBodies == {[title |-> <<"Q1 Goals">>]}

\* a request of the ledger, served in one piece: the history variables and
\* the relocation register are not part of it
Keep(A) == A /\ UNCHANGED <<history, inflight, relocation>>

Next ==
    \/ \E b \in UserCreateBodies :
        Created < MaxCreated /\ Keep(create_user(b))
    \/ \E u \in UserArgs, b \in UserUpdateBodies : Keep(update_user(u, b))
    \/ \E u \in UserArgs : Keep(delete_user(u))
    \/ \E b \in ProductCreateBodies :
        Created < MaxCreated /\ Keep(create_product(b))
    \/ \E p \in ProductArgs, b \in ProductUpdateBodies : Keep(update_product(p, b))
    \/ \E p \in ProductArgs : Keep(delete_product(p))
    \/ \E p \in ProductArgs, b \in RestockBodies :
        /\ p \in DOMAIN DB.products => DB.products[p].stock + b.quantity <= MaxStock
        /\ Keep(restock_product(p, b))
    \/ \E b \in OrderCreateBodies :
        Created < MaxCreated /\ Keep(create_order(b))
    \/ \E o \in OrderArgs, b \in OrderStatusBodies : Keep(update_order_status(o, b))
    \/ \E b \in NoteCreateBodies :
        Created < MaxCreated /\ Keep(create_note(b))
    \/ \E n \in NoteArgs, b \in NoteUpdateBodies : Keep(update_note(n, b))
    \/ \E n \in NoteArgs : Keep(delete_note(n))
    \/ Keep(reset)

Spec == Init /\ [][Next]_vars

----------------------------------------------------------------------------
(* The ledger with the history of the ids handed out *)

CreateOps == {"create_user", "create_product", "create_order", "create_note"}

\* the table a create request adds to
TableOf(op) ==
    CASE op = "create_user" -> "users"
      [] op = "create_product" -> "products"
      [] op = "create_order" -> "orders"
      [] op = "create_note" -> "notes"

\* the reply of a create request that handed out an id
IsCreated(r) == r.op \in CreateOps /\ r.code = 201

\* h with the id that the step's reply hands out, if any
Noted(h) ==
    [t \in Tables |->
        IF IsCreated(response') /\ TableOf(response'.op) = t
        THEN h[t] \cup {response'.id}
        ELSE h[t]]

\* the history variables follow the replies
Record ==
    /\ issued' = Noted(issued)
    /\ issued_since_reset' =
            IF response'.op = "reset"
            THEN [t \in Tables |-> {}]
            ELSE Noted(issued_since_reset)

\* a request of the ledger, the history following its reply
Noting(A) == A /\ Record /\ UNCHANGED <<inflight, relocation>>

\* the requests that add to a table, remove from it, or reset it
NextIds ==
    \/ \E b \in UserCreateBodies :
        Created < MaxIssued /\ Noting(create_user(b))
    \/ \E u \in UserArgs : Noting(delete_user(u))
    \/ \E b \in ProductCreateBodies :
        Created < MaxIssued /\ Noting(create_product(b))
    \/ \E p \in ProductArgs : Noting(delete_product(p))
    \/ \E b \in OrderCreateBodies :
        Created < MaxIssued /\ Noting(create_order(b))
    \/ \E b \in NoteCreateBodies :
        Created < MaxIssued /\ Noting(create_note(b))
    \/ \E n \in NoteArgs : Noting(delete_note(n))
    \/ Noting(reset)

SpecIds == Init /\ [][NextIds]_vars

----------------------------------------------------------------------------
(* The users table alone *)

\* every user id handed out so far, and the next one
AllUserArgs == 1 .. (COUNTERS.users + 1)

\* the requests on users, and reset
NextUsers ==
    \/ \E b \in UserCreateBodies :
        Created < MaxIssued /\ Keep(create_user(b))
    \/ \E u \in AllUserArgs, b \in UserEmailBodies : Keep(update_user(u, b))
    \/ \E u \in AllUserArgs : Keep(delete_user(u))
    \/ Keep(reset)

SpecUsers == Init /\ [][NextUsers]_vars

----------------------------------------------------------------------------
(* The ledger with its reads *)

NextReads ==
    \/ Next
    \/ \E u \in UserArgs : Keep(get_user(u))
    \/ \E p \in ProductArgs : Keep(get_product(p))
    \/ \E o \in OrderArgs : Keep(get_order(o))
    \/ \E n \in NoteArgs \cup {COUNTERS.notes + 1} : Keep(get_note(n))
    \/ \E u \in UserArgs : Keep(user_orders(u))

SpecReads == Init /\ [][NextReads]_vars

----------------------------------------------------------------------------
(* The products table alone *)

\* product ids that requests name here: seed product 2, the new ones, and the
\* next id, which no product has
AllProductArgs == ProductArgs \cup {COUNTERS.products + 1}

\* updates of the price: none, to a price with three decimals, to zero
ProductPriceBodies ==
    {[price |-> pr, stock |-> <<>>] : pr \in {<<>>, <<4>>, <<0>>}}

\* restocks by a negative quantity, by zero, by one
RestockAnyBodies == {[quantity |-> q] : q \in {-1, 0, 1}}

\* the stock a product started with
FirstStock(p) == IF p \in DOMAIN SeedProducts THEN SeedProducts[p].stock ELSE 0

\* the requests on products, and reset
NextProducts ==
    \/ \E b \in ProductCreateBodies :
        Created < MaxIssued /\ Keep(create_product(b))
    \/ \E p \in AllProductArgs, b \in ProductPriceBodies :
        Keep(update_product(p, b))
    \/ \E p \in AllProductArgs, b \in RestockAnyBodies :
        /\ p \in DOMAIN DB.products =>
                DB.products[p].stock + b.quantity <= FirstStock(p) + MaxStock
        /\ Keep(restock_product(p, b))
    \/ Keep(reset)

SpecProducts == Init /\ [][NextProducts]_vars

----------------------------------------------------------------------------
(* Orders and the deletion of users, with no reset *)

\* place_order, set_order_status and the deletion of users
NextOrders ==
    \/ \E b \in OrderCreateBodies :
        Created < MaxIssued /\ Keep(create_order(b))
    \/ \E o \in OrderArgs, b \in OrderStatusBodies :
        Keep(update_order_status(o, b))
    \/ \E u \in UserArgs : Keep(delete_user(u))

SpecOrders == Init /\ [][NextOrders]_vars

----------------------------------------------------------------------------
(* Orders, stock levels and the summary *)

\* updates of the stock to either side of the low-stock threshold
ProductStockBodies ==
    {[price |-> <<>>, stock |-> st] : st \in {<<9>>, <<10>>}}

NextSummary ==
    \/ \E b \in OrderCreateBodies :
        Created < MaxCreated /\ Keep(create_order(b))
    \/ \E o \in OrderArgs, b \in OrderStatusBodies :
        Keep(update_order_status(o, b))
    \/ \E u \in UserArgs : Keep(delete_user(u))
    \/ \E p \in ProductArgs, b \in ProductStockBodies :
        Keep(update_product(p, b))
    \/ \E p \in ProductArgs : Keep(delete_product(p))
    \/ Keep(summary)
    \/ Keep(reset)

SpecSummary == Init /\ [][NextSummary]_vars

----------------------------------------------------------------------------
(* place_order calls served side by side *)

\* orders by user 2 on product 2 (stock 42) and product 3 (stock 8)
RaceBodies ==
    {[user_id |-> 2, product_id |-> p, quantity |-> q] :
        p \in {2, 3}, q \in {5, 30}}

\* the calls that are past their stock check
Underway == {c \in Callers : inflight[c] # <<>>}

\* the two callers, each call a check step and a commit step, and the
\* changes of status in between; the handlers that delete or replace a
\* product are left out
NextRace ==
    \/ \E c \in Callers, b \in RaceBodies :
        /\ Created + Cardinality(Underway) < MaxIssued
        /\ create_order_check(c, b)
        /\ UNCHANGED <<history, relocation>>
    \/ \E c \in Callers :
        /\ create_order_commit(c)
        /\ UNCHANGED <<history, relocation>>
    \/ \E o \in OrderArgs, b \in OrderStatusBodies :
        Keep(update_order_status(o, b))

SpecRace == Init /\ [][NextRace]_vars

----------------------------------------------------------------------------
(* The relocation register and its Timers *)

\* the customer ids that requests name: those returned so far and the next
CustomerArgs == {customer_id(n) : n \in 1 .. (Len(returned) + 1)}

NextRelocation ==
    \/ /\ Len(returned) < MaxRegistered
       /\ register_relocation
       /\ UNCHANGED ledger
    \/ \E cid \in CustomerArgs :
        remove_relocation(cid) /\ UNCHANGED ledger
    \/ \E cid \in CustomerArgs, st \in RelocationStatuses :
        change_relocation_status(cid, st) /\ UNCHANGED ledger
    \/ \E t \in timers :
        auto_confirm_status(t) /\ UNCHANGED ledger

SpecRelocation == Init /\ [][NextRelocation]_vars

\* every Timer a registration can start
AllTimers ==
    {[customer_id |-> customer_id(n), started |-> k] :
        n \in 1 .. MaxRegistered, k \in 1 .. MaxRegistered}

\* the register while the process lives on: a Timer that has been started
\* does fire
SpecTimers ==
    /\ SpecRelocation
    /\ \A t \in AllTimers : WF_vars(auto_confirm_status(t) /\ UNCHANGED ledger)



\* C1: in every reachable state, every product's stock is >= 0.
\* (update_product and create_product take any integer as stock.)
C1_StockNonNegative ==
    \A p \in DOMAIN DB.products : DB.products[p].stock >= 0

\* the four edges of the order life cycle
Edges ==
    {<<"pending", "paid">>, <<"pending", "cancelled">>,
     <<"paid", "shipped">>, <<"paid", "cancelled">>}

\* C2: in a step that is not a reset, no order disappears and every order
\* whose status changes follows one of the four edges; so a shipped or
\* cancelled order keeps its status and no order returns to pending.
C2_StatusEdges ==
    [][response'.op # "reset" =>
        \A o \in DOMAIN DB.orders :
            /\ o \in DOMAIN DB'.orders
            /\ DB'.orders[o].status # DB.orders[o].status =>
                    <<DB.orders[o].status, DB'.orders[o].status>> \in Edges]_vars

\* C2, witness: order 2 went pending -> paid -> shipped and a request to
\* change its status has been refused.
C2_Witness ==
    /\ response.op = "update_order_status"
    /\ response.code = 400
    /\ response.id = 2
    /\ DB.orders[2].status = "shipped"

\* C3: set_order_status(o, cancelled) on a pending or paid order whose
\* product exists adds the order's quantity to that product's stock, sets the
\* status to cancelled and changes nothing else; on a shipped or cancelled
\* order it is refused and nothing changes.
C3_Cancel ==
    [][response'.op = "update_order_status" =>
       \A o \in DOMAIN DB.orders :
        update_order_status(o, [status |-> "cancelled"]) =>
            LET ord == DB.orders[o]
            IN  IF ord.status \in {"pending", "paid"}
                THEN ord.product_id \in DOMAIN DB.products =>
                        /\ response'.code = 200
                        /\ DB'.products = [DB.products EXCEPT
                                ![ord.product_id].stock = @ + ord.quantity]
                        /\ DB'.orders = [DB.orders EXCEPT ![o].status = "cancelled"]
                        /\ DB'.users = DB.users
                        /\ DB'.notes = DB.notes
                        /\ COUNTERS' = COUNTERS
                ELSE /\ response'.code = 400
                     /\ DB' = DB
                     /\ COUNTERS' = COUNTERS]_vars

\* C3, witness: order 2 (quantity 2, product 2) has just been cancelled and
\* the stock of product 2 is the seed's plus 2.
C3_Witness ==
    /\ response.op = "update_order_status"
    /\ response.code = 200
    /\ response.id = 2
    /\ DB.orders[2].status = "cancelled"
    /\ 2 \in DOMAIN DB.products
    /\ DB.products[2].stock = SeedProducts[2].stock + DB.orders[2].quantity

\* C4: place_order of a valid quantity, by an existing user, on an existing
\* product whose stock is below the quantity is refused with code 400 and
\* leaves the products, the orders and the counters as they were.
C4_Insufficient ==
    [][response'.op = "create_order" =>
       \A b \in OrderCreateBodies :
        (/\ qty_positive(b.quantity)
         /\ b.user_id \in DOMAIN DB.users
         /\ b.product_id \in DOMAIN DB.products
         /\ DB.products[b.product_id].stock < b.quantity
         /\ create_order(b)) =>
            /\ response'.code = 400
            /\ DB'.products = DB.products
            /\ DB'.orders = DB.orders
            /\ COUNTERS' = COUNTERS]_vars

\* C4, witness: an order has been refused for a quantity above a stock that
\* is not negative.
C4_Witness ==
    /\ response.op = "create_order"
    /\ response.code = 400
    /\ 0 <= response.n
    /\ response.n < response.q

\* what a successful place_order does, the total left aside
PlacedFrame(b) ==
    LET oid == COUNTERS.orders + 1
    IN  /\ response'.id = oid
        /\ COUNTERS'.orders = oid
        /\ DB'.products = [DB.products EXCEPT ![b.product_id].stock = @ - b.quantity]
        /\ DOMAIN DB'.orders = DOMAIN DB.orders \cup {oid}
        /\ oid \notin DOMAIN DB.orders
        /\ \A o \in DOMAIN DB.orders : DB'.orders[o] = DB.orders[o]
        /\ DB'.orders[oid].user_id = b.user_id
        /\ DB'.orders[oid].product_id = b.product_id
        /\ DB'.orders[oid].quantity = b.quantity
        /\ DB'.orders[oid].status = "pending"
        /\ DB'.users = DB.users

\* t is x rounded to two decimals: a whole number of hundredths, at most
\* half a hundredth away from x
IsRounded(t, x) ==
    /\ t % 10 = 0
    /\ 2 * (IF t >= x THEN t - x ELSE x - t) <= 10

\* C5 as claimed: a successful place_order takes q from the stock and adds
\* one pending order, with id counter + 1, whose total is price * q.
C5_PlacedExactTotal ==
    [][response'.op = "create_order" =>
       \A b \in OrderCreateBodies :
        (create_order(b) /\ response'.code = 201) =>
            /\ PlacedFrame(b)
            /\ DB'.orders[COUNTERS.orders + 1].total =
                    DB.products[b.product_id].price * b.quantity]_vars

\* C5 as amended: the same, the total being price * q rounded to two
\* decimals.
C5_PlacedRoundedTotal ==
    [][response'.op = "create_order" =>
       \A b \in OrderCreateBodies :
        (create_order(b) /\ response'.code = 201) =>
            /\ PlacedFrame(b)
            /\ IsRounded(DB'.orders[COUNTERS.orders + 1].total,
                         DB.products[b.product_id].price * b.quantity)]_vars

\* C5, witness: an order has just been placed on a product whose price has a
\* third decimal, and its total is not price * quantity.
C5_Witness ==
    /\ response.op = "create_order"
    /\ response.code = 201
    /\ LET ord == DB.orders[response.id]
       IN  /\ ord.status = "pending"
           /\ ord.product_id \in DOMAIN DB.products
           /\ DB.products[ord.product_id].price > 0
           /\ DB.products[ord.product_id].stock = response.n
           /\ ord.total # DB.products[ord.product_id].price * ord.quantity

\* C6: delete_user of an existing user removes that user only, cancels
\* exactly that user's pending orders, leaves every other order as it was
\* and returns the ids of the orders it cancelled.
C6_DeleteUser ==
    [][response'.op = "delete_user" =>
       \A u \in DOMAIN DB.users :
        delete_user(u) =>
            LET mine == {o \in DOMAIN DB.orders :
                            /\ DB.orders[o].user_id = u
                            /\ DB.orders[o].status = "pending"}
            IN  /\ response'.code = 200
                /\ response'.ids = mine
                /\ DOMAIN DB'.users = DOMAIN DB.users \ {u}
                /\ \A v \in DOMAIN DB'.users : DB'.users[v] = DB.users[v]
                /\ DOMAIN DB'.orders = DOMAIN DB.orders
                /\ \A o \in DOMAIN DB.orders :
                        DB'.orders[o] =
                            IF o \in mine
                            THEN [DB.orders[o] EXCEPT !.status = "cancelled"]
                            ELSE DB.orders[o]]_vars

\* C6, witness: a user has just been deleted who had a pending order, now
\* cancelled and returned, and an order in another status, left as it was.
C6_Witness ==
    /\ response.op = "delete_user"
    /\ response.code = 200
    /\ response.ids # {}
    /\ response.id \notin DOMAIN DB.users
    /\ \A o \in response.ids : DB.orders[o].status = "cancelled"
    /\ \E o \in DOMAIN DB.orders :
            /\ DB.orders[o].user_id = response.id
            /\ DB.orders[o].status \in {"paid", "shipped"}

\* C7: delete_product of an existing product that a pending order refers to
\* is refused with code 409 and the number of such orders, and changes
\* nothing.
C7_DeleteBlocked ==
    [][response'.op = "delete_product" =>
       \A p \in DOMAIN DB.products :
        LET blocking == {o \in DOMAIN DB.orders :
                            /\ DB.orders[o].product_id = p
                            /\ DB.orders[o].status = "pending"}
        IN  (blocking # {} /\ delete_product(p)) =>
                /\ response'.code = 409
                /\ response'.n = Cardinality(blocking)
                /\ DB' = DB
                /\ COUNTERS' = COUNTERS]_vars

\* C7, witness: the deletion of a product has been refused while the product
\* has a pending order and an order in another status.
C7_Witness ==
    /\ response.op = "delete_product"
    /\ response.code = 409
    /\ response.n = 1
    /\ response.id \in DOMAIN DB.products
    /\ \E o \in DOMAIN DB.orders :
            /\ DB.orders[o].product_id = response.id
            /\ DB.orders[o].status # "pending"

\* C8: in a step that is not a reset, every order stays and keeps its total.
C8_TotalFixed ==
    [][response'.op # "reset" =>
        \A o \in DOMAIN DB.orders :
            /\ o \in DOMAIN DB'.orders
            /\ DB'.orders[o].total = DB.orders[o].total]_vars

\* C8, witness: the price of product 2 has just been changed, and order 2 on
\* it keeps the total of the price it was placed at.
C8_Witness ==
    /\ response.op = "update_product"
    /\ response.code = 200
    /\ response.id = 2
    /\ DB.products[2].price # SeedProducts[2].price
    /\ DB.orders[2].total = SeedOrders[2].total
    /\ DB.orders[2].total # round2(DB.products[2].price * DB.orders[2].quantity)

\* C9 as claimed: a create request never returns an id that the table has
\* handed out before, reset or no reset.
C9_NeverReused ==
    [][IsCreated(response') =>
        \A i \in issued[TableOf(response'.op)] : response'.id > i]_vars

\* C9 as amended: a create request returns an id above every id that the
\* table has handed out since the latest reset (since the start, before the
\* first reset).
C9_FreshSinceReset ==
    [][IsCreated(response') =>
        \A i \in issued_since_reset[TableOf(response'.op)] : response'.id > i]_vars

\* C9, witness: user 5 has just been created after user 4 was created and
\* deleted, with no reset in between.
C9_Witness ==
    /\ response.op = "create_user"
    /\ response.code = 201
    /\ response.id = 5
    /\ issued_since_reset.users = {4, 5}
    /\ 4 \notin DOMAIN DB.users

\* C10: no two users in the store have the same email.
\* (update_user takes any email.)
C10_EmailsUnique ==
    \A u, v \in DOMAIN DB.users :
        u # v => DB.users[u].email # DB.users[v].email


\* C11: whatever the state before, a reset leaves users 1, 2, 3, products
\* 1..4 with stocks 15, 42, 8, 200, orders 1, 2, 3 with statuses shipped,
\* pending, paid, no note, and the counters 3, 4, 3, 0: the seed, exactly.
C11_ResetToSeed ==
    [][response'.op = "reset" =>
        /\ DOMAIN DB'.users = {1, 2, 3}
        /\ DOMAIN DB'.products = {1, 2, 3, 4}
        /\ [p \in 1..4 |-> DB'.products[p].stock] = <<15, 42, 8, 200>>
        /\ DOMAIN DB'.orders = {1, 2, 3}
        /\ [o \in 1..3 |-> DB'.orders[o].status] = <<"shipped", "pending", "paid">>
        /\ DOMAIN DB'.notes = {}
        /\ COUNTERS' = [users |-> 3, products |-> 4, orders |-> 3, notes |-> 0]
        /\ DB' = SeedDB]_vars

\* C11, witness: a reset has just been served after an order and a note had
\* been created, and the store is the seed with the seed's counters.
C11_Witness ==
    /\ response.op = "reset"
    /\ issued.orders # {}
    /\ issued.notes # {}
    /\ issued_since_reset = [t \in Tables |-> {}]
    /\ DB = SeedDB
    /\ COUNTERS = SeedCounters


\* C12: place_order of a valid quantity looks for the user, then for the
\* product, then at the stock: an absent user is reported as the user not
\* found, whatever the product; with the user present an absent product is
\* reported as the product not found; and an order is added only while its
\* user and its product are in the store.
C12_CheckOrder ==
    [][response'.op = "create_order" =>
       \A b \in OrderCreateBodies :
        (qty_positive(b.quantity) /\ create_order(b)) =>
            /\ b.user_id \notin DOMAIN DB.users =>
                    /\ response'.code = 404
                    /\ response'.missing = "User"
                    /\ response'.id = b.user_id
            /\ (b.user_id \in DOMAIN DB.users
                    /\ b.product_id \notin DOMAIN DB.products) =>
                    /\ response'.code = 404
                    /\ response'.missing = "Product"
                    /\ response'.id = b.product_id
            /\ \A o \in DOMAIN DB'.orders \ DOMAIN DB.orders :
                    /\ DB'.orders[o].user_id \in DOMAIN DB.users \cap DOMAIN DB'.users
                    /\ DB'.orders[o].product_id \in
                            DOMAIN DB.products \cap DOMAIN DB'.products]_vars

\* C12, witness: an order of 50 by user 2, who is gone, on product 2, whose
\* stock is below 50, has been refused for the user.
C12_Witness ==
    /\ response.op = "create_order"
    /\ response.code = 404
    /\ response.missing = "User"
    /\ response.id = 2
    /\ response.q = 50
    /\ 2 \notin DOMAIN DB.users
    /\ 2 \in DOMAIN DB.products
    /\ DB.products[2].stock < response.q


\* C13: create_user with the email of a user in the store is refused with a
\* conflict and leaves the users and the user counter as they were; with any
\* other email it adds the user under the id counter + 1, which is 4 on the
\* seed.
C13_CreateUser ==
    [][response'.op = "create_user" =>
       \A b \in UserCreateBodies :
        create_user(b) =>
            IF \E u \in DOMAIN DB.users : DB.users[u].email = b.email
            THEN /\ response'.code = 409
                 /\ DB'.users = DB.users
                 /\ COUNTERS'.users = COUNTERS.users
            ELSE /\ response'.code = 201
                 /\ response'.id = COUNTERS.users + 1
                 /\ (DB = SeedDB /\ COUNTERS = SeedCounters) => response'.id = 4
                 /\ DOMAIN DB'.users = DOMAIN DB.users \cup {response'.id}
                 /\ DB'.users[response'.id].email = b.email
                 /\ \A u \in DOMAIN DB.users : DB'.users[u] = DB.users[u]]_vars

\* C13, witness: Diana was created as user 4, and a second create_user has
\* just been refused while she holds her email.
C13_Witness ==
    /\ response.op = "create_user"
    /\ response.code = 409
    /\ COUNTERS.users = 4
    /\ 4 \in DOMAIN DB.users
    /\ DB.users[4].email = "diana@example.com"
    /\ DOMAIN DB.users = {1, 2, 3, 4}


\* C14: a request answered with not-found (a read, an update, a deletion, a
\* restock, place_order, set_order_status or user_order_history naming an
\* absent id) or with an invalid transition leaves the four tables and the
\* four counters as they were.
C14_FailureKeepsState ==
    [][(\/ response'.code = 404
        \/ response'.op = "update_order_status" /\ response'.code = 400) =>
            /\ DB' = DB
            /\ COUNTERS' = COUNTERS]_vars

\* C14, witness: the order history of user 2 has been asked for after the
\* user was deleted, and order 2 of that user is still in the store.
C14_Witness ==
    /\ response.op = "user_orders"
    /\ response.code = 404
    /\ response.missing = "User"
    /\ response.id = 2
    /\ 2 \notin DOMAIN DB.users
    /\ DB.orders[2].user_id = 2


\* C15: after any sequence of create_product, update_product and reset
\* requests that pass validation, every product in the store has price > 0.
\* (ProductUpdate declares no validator: update_product takes any price.)
C15_PricePositive ==
    \A p \in DOMAIN DB.products : DB.products[p].price > 0


\* C19: restock of q > 0 on a product in the store adds exactly q to that
\* product's stock and changes no other product, no order and no counter;
\* a restock of q <= 0 is refused and changes nothing.
C19_Restock ==
    [][response'.op = "restock_product" =>
       \A p \in DOMAIN DB.products, b \in RestockAnyBodies :
        restock_product(p, b) =>
            IF b.quantity > 0
            THEN /\ response'.code = 200
                 /\ response'.n = DB.products[p].stock + b.quantity
                 /\ DB'.products[p].stock = DB.products[p].stock + b.quantity
                 /\ DB'.products[p].price = DB.products[p].price
                 /\ DOMAIN DB'.products = DOMAIN DB.products
                 /\ \A r \in DOMAIN DB.products \ {p} :
                        DB'.products[r] = DB.products[r]
                 /\ DB'.orders = DB.orders
                 /\ DB'.users = DB.users
                 /\ DB'.notes = DB.notes
                 /\ COUNTERS' = COUNTERS
            ELSE /\ response'.code = 422
                 /\ DB' = DB
                 /\ COUNTERS' = COUNTERS]_vars

\* C19, witness: product 2 has just been restocked by one, from the seed's
\* 42 to 43, the other seed products keeping their stock.
C19_Witness ==
    /\ response.op = "restock_product"
    /\ response.code = 200
    /\ response.id = 2
    /\ response.q = 1
    /\ response.n = 43
    /\ DB.products[2].stock = SeedProducts[2].stock + 1
    /\ \A r \in {1, 3, 4} : DB.products[r] = SeedProducts[r]


\* the quantity a product has out in orders that are not cancelled
Committed(db, p) ==
    LET open == {o \in DOMAIN db.orders :
                    /\ db.orders[o].product_id = p
                    /\ db.orders[o].status \in {"pending", "paid", "shipped"}}
    IN  Sum([o \in open |-> db.orders[o].quantity], open)

\* C16: over place_order, set_order_status and delete_user, the stock of a
\* product plus the quantity of its pending, paid and shipped orders never
\* changes.
\* (delete_user cancels the user's pending orders and returns nothing to
\* the stock.)
C16_StockConserved ==
    [][\A p \in DOMAIN DB.products :
        DB'.products[p].stock + Committed(DB', p) =
            DB.products[p].stock + Committed(DB, p)]_vars


\* C17: set_order_status(o, cancelled) on a pending or paid order whose
\* product is no longer in the store sets the status to cancelled, adds no
\* product and leaves the stock of every product as it was.
C17_CancelOrphan ==
    [][response'.op = "update_order_status" =>
       \A o \in DOMAIN DB.orders :
        (/\ DB.orders[o].status \in {"pending", "paid"}
         /\ DB.orders[o].product_id \notin DOMAIN DB.products
         /\ update_order_status(o, [status |-> "cancelled"])) =>
            /\ response'.code = 200
            /\ DB'.orders[o].status = "cancelled"
            /\ DOMAIN DB'.products = DOMAIN DB.products
            /\ \A p \in DOMAIN DB.products :
                    DB'.products[p].stock = DB.products[p].stock]_vars

\* C17, witness: order 2 has just been cancelled while its product, 2, is
\* not in the store.
C17_Witness ==
    /\ response.op = "update_order_status"
    /\ response.code = 200
    /\ response.id = 2
    /\ DB.orders[2].status = "cancelled"
    /\ DB.orders[2].product_id = 2
    /\ 2 \notin DOMAIN DB.products


\* C18: delete_product of a product in the store that no pending order
\* refers to succeeds, removes that product only and leaves every order as
\* it was, the paid, shipped and cancelled orders of the product included.
C18_DeleteProduct ==
    [][response'.op = "delete_product" =>
       \A p \in DOMAIN DB.products :
        (/\ \A o \in DOMAIN DB.orders :
                DB.orders[o].product_id = p => DB.orders[o].status # "pending"
         /\ delete_product(p)) =>
            /\ response'.code = 200
            /\ DOMAIN DB'.products = DOMAIN DB.products \ {p}
            /\ \A r \in DOMAIN DB'.products : DB'.products[r] = DB.products[r]
            /\ DOMAIN DB'.orders = DOMAIN DB.orders
            /\ \A o \in DOMAIN DB.orders :
                    /\ DB'.orders[o].product_id = DB.orders[o].product_id
                    /\ DB'.orders[o].quantity = DB.orders[o].quantity
                    /\ DB'.orders[o].total = DB.orders[o].total
                    /\ DB'.orders[o].status = DB.orders[o].status
            /\ DB'.users = DB.users
            /\ DB'.notes = DB.notes
            /\ COUNTERS' = COUNTERS]_vars

\* C18, witness: product 2 has just been deleted while order 2, paid or
\* shipped, still refers to it.
C18_Witness ==
    /\ response.op = "delete_product"
    /\ response.code = 200
    /\ response.id = 2
    /\ 2 \notin DOMAIN DB.products
    /\ DB.orders[2].product_id = 2
    /\ DB.orders[2].status \in {"paid", "shipped"}
    /\ DB.orders[2].total = SeedOrders[2].total


\* the revenue of a store, counted order by order
RevenueOf(db) ==
    Sum([o \in DOMAIN db.orders |->
            IF db.orders[o].status = "paid" \/ db.orders[o].status = "shipped"
            THEN db.orders[o].total
            ELSE 0],
        DOMAIN db.orders)

\* C20: a summary reports as total revenue the sum of the totals of exactly
\* the paid and shipped orders, per-status counts that add up to the number
\* of orders, and as low on stock exactly the products with stock < 10;
\* cancelling a paid order lowers the revenue a summary reports by the
\* order's total, and paying a pending order raises it by the order's total.
C20_Summary ==
    [][/\ response'.op = "summary" =>
            LET report == response'.body
            IN  /\ report.total_revenue = RevenueOf(DB')
                /\ report.orders = Cardinality(DOMAIN DB'.orders)
                /\ Sum(report.by_status, DOMAIN report.by_status) = report.orders
                /\ \A s \in DOMAIN report.by_status :
                        report.by_status[s] =
                            Cardinality({o \in DOMAIN DB'.orders :
                                            DB'.orders[o].status = s})
                /\ report.low_stock \subseteq DOMAIN DB'.products
                /\ \A p \in DOMAIN DB'.products :
                        p \in report.low_stock <=> DB'.products[p].stock < 10
       /\ (response'.op = "update_order_status" /\ response'.code = 200) =>
            LET o == response'.id
                was == DB.orders[o].status
                is == DB'.orders[o].status
                change == SummaryOf(DB').total_revenue
                            - SummaryOf(DB).total_revenue
            IN  /\ (was = "paid" /\ is = "cancelled") => change = 0 - DB.orders[o].total
                /\ (was = "pending" /\ is = "paid") => change = DB.orders[o].total
      ]_vars

\* C20, witness: a summary has just been served while order 2 is paid, all
\* three seed orders counting as revenue, and product 2 sits at stock 9,
\* listed as low on stock with product 3.
C20_Witness ==
    /\ response.op = "summary"
    /\ DOMAIN DB.orders = {1, 2, 3}
    /\ DB.orders[2].status = "paid"
    /\ response.body.total_revenue =
            SeedOrders[1].total + SeedOrders[2].total + SeedOrders[3].total
    /\ response.body.by_status = [paid |-> 2, shipped |-> 1]
    /\ 2 \in DOMAIN DB.products
    /\ DB.products[2].stock = 9
    /\ response.body.low_stock = {2, 3}


\* C21: the stock check and the decrement of place_order are two steps. A
\* decrement leaves the stock negative only if the stock it finds is not
\* the stock its check read, that is, only if another call came in between;
\* a call whose check and decrement run as one step never leaves it negative.
C21_NegativeOnlyInterleaved ==
    [][\A c \in Callers :
        create_order_commit(c) =>
            LET call == inflight[c][1]
                p == call.body.product_id
            IN  /\ DB'.products[p].stock =
                        DB.products[p].stock - call.body.quantity
                /\ DB'.products[p].stock < 0 =>
                        DB.products[p].stock # call.seen
                /\ DB.products[p].stock = call.seen =>
                        DB'.products[p].stock >= 0]_vars

\* C21, witness: two orders of 5 on product 3, whose stock was 8, have both
\* been placed and the stock is -2.
C21_Witness ==
    /\ Underway = {}
    /\ response.op = "create_order"
    /\ response.code = 201
    /\ DOMAIN DB.orders = {1, 2, 3, 4, 5}
    /\ DB.orders[4].product_id = 3
    /\ DB.orders[5].product_id = 3
    /\ DB.orders[4].quantity + DB.orders[5].quantity > SeedProducts[3].stock
    /\ DB.products[3].stock = -2


\* the relocation cid is in the register and its Timer has yet to fire
Awaiting(cid) ==
    /\ cid \in DOMAIN relocations_db
    /\ \E t \in timers : t.customer_id = cid

\* the relocation cid has been removed, or its status is confirmed
RemovedOrConfirmed(cid) ==
    cid \in DOMAIN relocations_db => relocations_db[cid].status = "confirmed"

\* C22: right after register_relocation returns a customer id, the
\* relocation is in the register with status pending and a Timer is under
\* way for it; and, the Timers being run, a relocation whose Timer is under
\* way is, later on, removed or confirmed.
C22_EventuallyConfirmed ==
    /\ [][register_relocation =>
            /\ returned' = Append(returned, customer_id(customer_counter'))
            /\ customer_id(customer_counter') \in DOMAIN relocations_db'
            /\ relocations_db'[customer_id(customer_counter')].status = "pending"
            /\ \E t \in timers' :
                    t.customer_id = customer_id(customer_counter')]_vars
    /\ \A n \in 1 .. MaxRegistered :
            Awaiting(customer_id(n)) ~> RemovedOrConfirmed(customer_id(n))

\* C22, witness: the Timer of a relocation has just fired, found it pending
\* and left it confirmed.
C22_Witness ==
    /\ happened.op = "auto_confirm_status"
    /\ happened.ok
    /\ happened.was = "pending"
    /\ happened.customer_id \in DOMAIN relocations_db
    /\ relocations_db[happened.customer_id].status = "confirmed"
    /\ \A t \in timers : t.customer_id # happened.customer_id


\* C25: when the Timer of a relocation fires, the status of the relocation
\* becomes confirmed whatever it was (pending, in_transit, completed,
\* cancelled) and nothing else in the register changes; when the relocation
\* has been removed, the firing changes nothing and brings no entry back.
C25_TimerOverrides ==
    [][\A t \in timers :
        auto_confirm_status(t) =>
            /\ customer_counter' = customer_counter
            /\ IF t.customer_id \in DOMAIN relocations_db
               THEN /\ DOMAIN relocations_db' = DOMAIN relocations_db
                    /\ relocations_db'[t.customer_id].status = "confirmed"
                    /\ \A cid \in DOMAIN relocations_db \ {t.customer_id} :
                            relocations_db'[cid] = relocations_db[cid]
               ELSE /\ relocations_db' = relocations_db
                    /\ t.customer_id \notin DOMAIN relocations_db']_vars

\* C25, witness: a Timer has just fired on a relocation that
\* change_relocation_status had set to completed, and it is now confirmed.
C25_Witness ==
    /\ happened.op = "auto_confirm_status"
    /\ happened.ok
    /\ happened.was = "completed"
    /\ relocations_db[happened.customer_id].status = "confirmed"

\* C26: register_relocation never returns a customer id that it has
\* returned before; so a Timer that fires on a relocation in the register
\* is the Timer that the registration of this very relocation started, never
\* one left over from a relocation that was removed.
C26_FreshCustomerIds ==
    [][/\ register_relocation =>
            \A i \in 1 .. Len(returned) :
                returned[i] # customer_id(customer_counter')
       /\ \A t \in timers :
            (auto_confirm_status(t)
                /\ t.customer_id \in DOMAIN relocations_db) =>
                    relocations_db[t.customer_id].registered_at = t.started]_vars

\* C26, witness: the Timer of the first relocation, which was removed, has
\* just fired and found nothing, while the second relocation, registered
\* under another id, is still pending with its own Timer under way.
C26_Witness ==
    /\ happened.op = "auto_confirm_status"
    /\ ~happened.ok
    /\ Len(returned) = 2
    /\ happened.customer_id = returned[1]
    /\ returned[1] # returned[2]
    /\ returned[1] \notin DOMAIN relocations_db
    /\ returned[2] \in DOMAIN relocations_db
    /\ relocations_db[returned[2]].status = "pending"
    /\ Awaiting(returned[2])


\* C23: in every state, resets and deletions included, the counter of each
\* table is at least every id in the table; so the id that a create request
\* hands out is not the id of a row in the table, and no row is overwritten.
C23_CounterCovers ==
    /\ [](\A t \in Tables : \A i \in DOMAIN DB[t] : COUNTERS[t] >= i)
    /\ [][IsCreated(response') =>
            LET t == TableOf(response'.op)
            IN  /\ response'.id \notin DOMAIN DB[t]
                /\ \A i \in DOMAIN DB[t] : DB'[t][i] = DB[t][i]]_vars

\* C23, witness: product 6 has just been created after product 5 was
\* created and deleted; the counter is 6 and the seed products are there.
C23_Witness ==
    /\ response.op = "create_product"
    /\ response.code = 201
    /\ response.id = 6
    /\ COUNTERS.products = 6
    /\ DOMAIN DB.products = {1, 2, 3, 4, 6}

\* C24: every order has quantity >= 1, and a step that is not a reset
\* removes no order and changes nothing of an order but its status: the
\* set of order ids only grows between resets.
C24_OrdersKept ==
    /\ [](\A o \in DOMAIN DB.orders : DB.orders[o].quantity >= 1)
    /\ [][response'.op # "reset" =>
            /\ DOMAIN DB.orders \subseteq DOMAIN DB'.orders
            /\ \A o \in DOMAIN DB.orders :
                    /\ DB'.orders[o].user_id = DB.orders[o].user_id
                    /\ DB'.orders[o].product_id = DB.orders[o].product_id
                    /\ DB'.orders[o].quantity = DB.orders[o].quantity
                    /\ DB'.orders[o] =
                        [DB.orders[o] EXCEPT !.status = DB'.orders[o].status]]_vars

\* C24, witness: user 2 and product 2 are gone and order 4 has been added,
\* and order 2 is still there, of user 2, on product 2, for a quantity of 2.
C24_Witness ==
    /\ 2 \notin DOMAIN DB.users
    /\ 2 \notin DOMAIN DB.products
    /\ DOMAIN DB.orders = {1, 2, 3, 4}
    /\ DB.orders[4].quantity >= 1
    /\ DB.orders[2] = [SeedOrders[2] EXCEPT !.status = "cancelled"]

====
